---------------------------- MODULE Spec2Model ----------------------------
(***************************************************************************)
(* text-adventure: the story parser (src/parser.rs), the story data model  *)
(* (src/lib.rs) and the playback loop of the tui client                    *)
(* (src/tui_client.rs: main, run_app, ui).                                 *)
(*                                                                         *)
(* A Rust String is modelled as a sequence of one-character strings, so    *)
(* "Hi" is <<"H", "i">> and the empty String is <<>>.                      *)
(***************************************************************************)
EXTENDS Integers, Sequences, FiniteSets, TLC

(***************************************************************************)
(* Bounds of the model.                                                    *)
(***************************************************************************)
\* Documents handed to the parser are concatenations of at most MaxPieces pieces.
MaxPieces == 4
\* Longest whitespace suffix appended to a document.
MaxSuffix == 2
\* The player types at most MaxInput characters into the input buffer.
MaxInput == 3
\* The clock is followed until MaxElapsed ms after the start of a reveal.
MaxElapsed == 40

(***************************************************************************)
(* Characters.                                                             *)
(***************************************************************************)
Upper ==
    {"A", "B", "C", "D", "E", "F", "G", "H", "I", "J", "K", "L", "M",
     "N", "O", "P", "Q", "R", "S", "T", "U", "V", "W", "X", "Y", "Z"}

\* rule _ = quiet!{[' ' | '\t']+} : the characters of inline whitespace
InlineWs == {" ", "\t"}

Min(a, b) == IF a <= b THEN a ELSE b

\* position after the longest run of characters of S that starts at i
RECURSIVE ScanWhile(_, _, _)
ScanWhile(d, i, S) ==
    IF i <= Len(d) /\ d[i] \in S THEN ScanWhile(d, i + 1, S) ELSE i

\* position after the longest run of characters outside S that starts at i
RECURSIVE ScanUntil(_, _, _)
ScanUntil(d, i, S) ==
    IF i <= Len(d) /\ d[i] \notin S THEN ScanUntil(d, i + 1, S) ELSE i

\* a text that stops before any "+", whether or not a newline precedes it
RECURSIVE ScanTextStopsAtPlus(_, _)
ScanTextStopsAtPlus(d, i) ==
    IF i > Len(d) THEN i
    ELSE IF d[i] = "+" \/ (d[i] = "\n" /\ i + 1 <= Len(d) /\ d[i + 1] = "+") THEN i
    ELSE ScanTextStopsAtPlus(d, i + 1)

\* (!"\n+" [_])+ : position after the longest run that stops before "\n+"
RECURSIVE ScanText(_, _)
ScanText(d, i) ==
    IF i > Len(d) THEN i
    ELSE IF d[i] = "\n" /\ i + 1 <= Len(d) /\ d[i + 1] = "+" THEN i
    ELSE ScanText(d, i + 1)

(***************************************************************************)
(* StoryEvent (src/lib.rs) and the outcome of a grammar rule.              *)
(***************************************************************************)
Text(t) == [type |-> "Text", s |-> t]
Input(l) == [type |-> "Input", s |-> l]
Pause == [type |-> "Pause", s |-> <<>>]
Clear == [type |-> "Clear", s |-> <<>>]

NoEvent == [type |-> "None", s |-> <<>>]

\* a rule matched up to (not including) position p and produced event e
Matched(e, p) == [st |-> "ok", ev |-> e, val |-> <<>>, pos |-> p, what |-> ""]
\* a rule did not match at position p
Failed(p) == [st |-> "fail", ev |-> NoEvent, val |-> <<>>, pos |-> p, what |-> ""]
\* the action block of a rule panicked
Panicked(w, p) == [st |-> "panic", ev |-> NoEvent, val |-> <<>>, pos |-> p, what |-> w]

(***************************************************************************)
(* The grammar of src/parser.rs, rule by rule.  Positions are 1-based.     *)
(***************************************************************************)
\* rule arg = ":" _? arg:$((!("\n"/_) [_])+) { arg }
arg(d, i) ==
    IF i <= Len(d) /\ d[i] = ":"
    THEN LET j == ScanWhile(d, i + 1, InlineWs)
             k == ScanUntil(d, j, InlineWs \cup {"\n"})
         IN  IF k > j
             THEN [st |-> "ok", ev |-> NoEvent, val |-> SubSeq(d, j, k - 1),
                   pos |-> k, what |-> ""]
             ELSE Failed(i)
    ELSE Failed(i)

\* the match of the command's action block
CommandAction(cmd, a, p) ==
    IF cmd = <<"P", "A", "U", "S", "E">> THEN Matched(Pause, p)
    ELSE IF cmd = <<"C", "L", "E", "A", "R">> THEN Matched(Clear, p)
    ELSE IF cmd = <<"I", "N", "P", "U", "T">>
         THEN IF a.st = "ok" THEN Matched(Input(a.val), p)
              ELSE Panicked("unwrap_none", p)
    ELSE Panicked("todo", p)

\* rule command = "+" cmd:$(['A'..='Z']+) _? arg:arg()? { match cmd ... }
command(d, i) ==
    IF i <= Len(d) /\ d[i] = "+"
    THEN LET k == ScanWhile(d, i + 1, Upper)
         IN  IF k > i + 1
             THEN LET j == ScanWhile(d, k, InlineWs)
                      a == arg(d, j)
                      p == IF a.st = "ok" THEN a.pos ELSE j
                  IN  CommandAction(SubSeq(d, i + 1, k - 1), a, p)
             ELSE Failed(i)
    ELSE Failed(i)

\* rule text = t:$((!"\n+" [_])+) { StoryEvent::Text(t.to_owned()) }
text(d, i) ==
    LET k == ScanText(d, i)
    IN  IF k > i THEN Matched(Text(SubSeq(d, i, k - 1)), k) ELSE Failed(i)

\* rule event = s:command() / s:text() / expected!("event")
event(d, i) ==
    LET c == command(d, i)
    IN  IF c.st = "fail" THEN text(d, i) ELSE c

\* event() ** ("\n"+) after a first event: separator, then event, repeated
RECURSIVE MoreEvents(_, _, _)
MoreEvents(d, i, acc) ==
    LET j == ScanWhile(d, i, {"\n"})
    IN  IF j = i THEN [st |-> "ok", events |-> acc, pos |-> i, what |-> ""]
        ELSE LET e == event(d, j)
             IN  IF e.st = "panic"
                 THEN [st |-> "panic", events |-> <<>>, pos |-> e.pos, what |-> e.what]
                 ELSE IF e.st = "fail"
                 THEN [st |-> "ok", events |-> acc, pos |-> i, what |-> ""]
                 ELSE MoreEvents(d, e.pos, Append(acc, e.ev))

\* l:(event() ** ("\n"+))
EventList(d) ==
    LET e == event(d, 1)
    IN  IF e.st = "panic"
        THEN [st |-> "panic", events |-> <<>>, pos |-> e.pos, what |-> e.what]
        ELSE IF e.st = "fail"
        THEN [st |-> "ok", events |-> <<>>, pos |-> 1, what |-> ""]
        ELSE MoreEvents(d, e.pos, <<e.ev>>)

\* what story() returns: Ok(events), Err(ParseError at pos), or a panic
Ok(evs) == [kind |-> "Ok", events |-> evs, pos |-> 0, what |-> ""]
Err(w, p) == [kind |-> "Err", events |-> <<>>, pos |-> p, what |-> w]
Panic(w) == [kind |-> "Panic", events |-> <<>>, pos |-> 0, what |-> w]
NotParsed == [kind |-> "None", events |-> <<>>, pos |-> 0, what |-> ""]

\* pub rule story = l:(event() ** ("\n"+)) (_/"\n")* { l } ; the whole input
\* must be consumed, otherwise peg returns its ParseError (pos: the offset at
\* which the match of story stopped)
story(d) ==
    LET l == EventList(d)
    IN  IF l.st = "panic" THEN Panic(l.what)
        ELSE LET k == ScanWhile(d, l.pos, InlineWs \cup {"\n"})
             IN  IF k = Len(d) + 1 THEN Ok(l.events)
                 ELSE Err("syntax", k - 1)


\* stands for one character whose UTF-8 encoding takes two bytes (e-acute)
WideChar == "e_acute"

(***************************************************************************)
(* Documents.                                                              *)
(***************************************************************************)
Pieces ==
    { <<"+", "P", "A", "U", "S", "E">>, <<"+", "C", "L", "E", "A", "R">>,
      <<"+", "I", "N", "P", "U", "T">>, <<"+", "F", "R", "O", "B">>,
      <<":">>, <<"n">>, <<" ">>, <<"\t">>, <<"\n">>, <<"+">> }

\* the concatenations of at most n pieces
RECURSIVE DocsOf(_)
DocsOf(n) ==
    IF n = 0 THEN {<<>>}
    ELSE LET S == DocsOf(n - 1)
         IN  S \cup {d \o p : d \in S, p \in Pieces}

\* the sequences of at most n spaces, tabs and newlines
RECURSIVE WsSuffixes(_)
WsSuffixes(n) ==
    IF n = 0 THEN {<<>>}
    ELSE LET S == WsSuffixes(n - 1)
         IN  S \cup {w \o <<c>> : w \in S, c \in {" ", "\t", "\n"}}

\* Hi / +INPUT:name
DocHiName ==
    <<"H", "i", "\n", "+", "I", "N", "P", "U", "T", ":", "n", "a", "m", "e">>
\* a / +PAUSE / +CLEAR / b
DocPauseClear ==
    <<"a", "\n", "+", "P", "A", "U", "S", "E", "\n",
      "+", "C", "L", "E", "A", "R", "\n", "b">>
\* +INPUT:k / a / +CLEAR / +INPUT:k
DocTwoInputs ==
    <<"+", "I", "N", "P", "U", "T", ":", "k", "\n", "a", "\n",
      "+", "C", "L", "E", "A", "R", "\n", "+", "I", "N", "P", "U", "T", ":", "k">>
\* a text of two characters, the first of two bytes
DocWide == <<WideChar, "x">>
\* +FROB
DocFrob == <<"+", "F", "R", "O", "B">>

\* Line one / +CLEAR / Line two
DocLineClearLine ==
    <<"L", "i", "n", "e", " ", "o", "n", "e", "\n",
      "+", "C", "L", "E", "A", "R", "\n",
      "L", "i", "n", "e", " ", "t", "w", "o">>

\* documents given to the parser besides the concatenations of pieces
ExampleDocs == {DocLineClearLine}

\* the documents story/entry.story is drawn from (include_str!, src/lib.rs)
EmbeddedDocs == {DocHiName, DocPauseClear, DocTwoInputs, DocWide, DocFrob}

(***************************************************************************)
(* Strings as Rust sees them: len() and slicing count bytes.               *)
(***************************************************************************)
Width(c) == IF c = WideChar THEN 2 ELSE 1

RECURSIVE ByteLen(_)
ByteLen(s) == IF s = <<>> THEN 0 ELSE Width(Head(s)) + ByteLen(Tail(s))

\* the number of whole characters that make up the first n bytes of s, or -1
\* when byte n is past the end of s or inside a character (the slice panics)
RECURSIVE CharsOfBytes(_, _)
CharsOfBytes(s, n) ==
    IF n = 0 THEN 0
    ELSE IF s = <<>> \/ Width(Head(s)) > n THEN -1
    ELSE LET r == CharsOfBytes(Tail(s), n - Width(Head(s)))
         IN  IF r < 0 THEN -1 ELSE r + 1

\* HashMap::insert
Insert(m, k, v) == [x \in DOMAIN m \cup {k} |-> IF x = k THEN v ELSE m[x]]


(***************************************************************************)
(* State.                                                                  *)
(***************************************************************************)
VARIABLES
    pc,                \* position in main / run_app (or in the parser run)
    status,            \* how the process ended: "running", "ok", "err", "panic"
    doc,               \* the text handed to story()
    result,            \* what story(doc) returned
    raw_mode,          \* terminal: raw mode enabled
    alt_screen,        \* terminal: alternate screen entered
    res,               \* main's res: what run_app returned
    now,               \* the monotonic clock, in ms
    story_q,           \* AppData.story
    game_store,        \* AppData.game_store
    input,             \* AppUi.input
    input_mode,        \* AppUi.input_mode
    output,            \* AppUi.output
    current_response,  \* AppUi.current_response
    response_time,     \* AppUi.response_time
    response_progress, \* AppUi.response_progress
    update,            \* AppUi.update
    label,             \* AppUi.label
    view,              \* what the last terminal.draw put on the screen
    \* history variables
    key,               \* the event read by this tick's poll
    quit,              \* run_app returned through the quit key
    in_label,          \* the label of the last Input event dequeued
    last_commit,       \* the last HandleInput: the event's label and the text typed
    tick_event,        \* the type of the event dequeued by this tick's step
    tick_deq,          \* events dequeued in this tick
    tick_keys,         \* key events processed in this tick
    post_clear,        \* contents of the Text events dequeued since the last Clear
    dequeued,          \* the events popped from the queue so far, in order
    pre_clear          \* the output log as it was when the last Clear was dequeued

termVars == <<raw_mode, alt_screen>>
dataVars == <<story_q, game_store>>
uiVars == <<input, input_mode, output, current_response, response_time,
            response_progress, update, label>>
histVars == <<key, quit, in_label, last_commit, tick_event, tick_deq, tick_keys,
              post_clear, dequeued, pre_clear>>
vars == <<pc, status, doc, result, res, now, view, termVars, dataVars, uiVars,
          histVars>>

NoKey == [code |-> "None", ch |-> ""]
NoCommit == [set |-> FALSE, label |-> <<>>, value |-> <<>>]
NoView == [drawn |-> FALSE, mode |-> "Disabled", prompt |-> <<>>, items |-> <<>>]

\* AppData { story, game_store: HashMap::new() } before the story is parsed,
\* AppUi::default(), and the history variables
InitState ==
    /\ status = "running"
    /\ result = NotParsed
    /\ raw_mode = FALSE
    /\ alt_screen = FALSE
    /\ res = "none"
    /\ now = 0
    /\ story_q = <<>>
    /\ game_store = <<>>
    /\ input = <<>>
    /\ input_mode = "Disabled"
    /\ output = <<>>
    /\ current_response = <<>>
    /\ response_time = 0
    /\ response_progress = 0
    /\ update = "Update"
    /\ label = <<>>
    /\ view = NoView
    /\ key = NoKey
    /\ quit = FALSE
    /\ in_label = <<>>
    /\ last_commit = NoCommit
    /\ tick_event = "None"
    /\ tick_deq = 0
    /\ tick_keys = 0
    /\ post_clear = <<>>
    /\ dequeued = <<>>
    /\ pre_clear = <<>>


(***************************************************************************)
(* The parser on its own: story() applied to a document.                   *)
(***************************************************************************)
InitParser ==
    /\ pc = "parse"
    /\ doc \in DocsOf(MaxPieces) \cup ExampleDocs
    /\ InitState

\* story(text)
ParseDoc ==
    /\ pc = "parse"
    /\ result' = story(doc)
    /\ pc' = "parsed"
    /\ UNCHANGED <<status, doc, res, now, view, termVars, dataVars, uiVars, histVars>>

NextParser == ParseDoc

SpecParser == InitParser /\ [][NextParser]_vars

(***************************************************************************)
(* main() of the tui client: terminal setup.                               *)
(***************************************************************************)
Init ==
    /\ pc = "enable_raw"
    /\ doc \in EmbeddedDocs
    /\ InitState

\* the process ends: main returns Ok or Err, or a panic unwinds it
Exit(st) == pc' = "exit" /\ status' = st

\* enable_raw_mode()?
EnableRawMode ==
    /\ pc = "enable_raw"
    /\ \/ raw_mode' = TRUE /\ pc' = "enter_alt" /\ UNCHANGED status
       \/ UNCHANGED raw_mode /\ Exit("err")
    /\ UNCHANGED <<doc, result, alt_screen, res, now, view, dataVars, uiVars, histVars>>

\* execute!(stdout, EnterAlternateScreen, EnableMouseCapture)?
EnterAlternateScreen ==
    /\ pc = "enter_alt"
    /\ \/ alt_screen' = TRUE /\ pc' = "new_terminal" /\ UNCHANGED status
       \/ UNCHANGED alt_screen /\ Exit("err")
    /\ UNCHANGED <<doc, result, raw_mode, res, now, view, dataVars, uiVars, histVars>>

\* Terminal::new(backend)?
NewTerminal ==
    /\ pc = "new_terminal"
    /\ \/ pc' = "app_default" /\ UNCHANGED status
       \/ Exit("err")
    /\ UNCHANGED <<doc, result, res, now, view, termVars, dataVars, uiVars, histVars>>

\* AppData::default(): story(text).unwrap(); then AppUi::default()
AppDefault ==
    /\ pc = "app_default"
    /\ result' = story(doc)
    /\ IF result'.kind = "Ok"
       THEN /\ story_q' = result'.events
            /\ pc' = "update"
            /\ UNCHANGED status
       ELSE /\ UNCHANGED story_q
            /\ Exit("panic")
    /\ response_time' = now
    /\ UNCHANGED <<doc, res, now, view, termVars, game_store, histVars>>
    /\ UNCHANGED <<input, input_mode, output, current_response, response_progress,
                   update, label>>

(***************************************************************************)
(* run_app: one iteration of the loop is a tick: the match on              *)
(* app_ui.update, then terminal.draw, then the poll for a key.             *)
(***************************************************************************)
\* a tick where the poll comes before the draw
LoopOrderPollFirst == <<"update", "poll", "draw">>

\* the order of the three parts of the loop body
LoopOrder == <<"update", "draw", "poll">>

\* the part of the loop body that follows part p
NextPc(p) ==
    LET i == CHOOSE j \in 1..3 : LoopOrder[j] = p
    IN  LoopOrder[(i % 3) + 1]

\* per-character duration of the reveal, in ms
CharDurationMs == 10

\* how far the clock may advance between two reads
Deltas == {0, 5, 10}

\* what every arm of the match leaves alone, and the start of a tick's history
StepFrame ==
    /\ key' = NoKey
    /\ tick_keys' = 0
    /\ UNCHANGED <<status, doc, result, view, termVars, quit>>

\* a queue read that leaves the event at the front
PopFrontKeep == story_q

\* app_data.story.pop_front(): the queue without its front event
PopFront == Tail(story_q)

\* return Ok(()) / return Err(e): run_app hands its result to main
Return(r) == pc' = "returned" /\ res' = r

\* None => return Ok(())
UpdateFinished ==
    /\ pc = "update" /\ update = "Update" /\ story_q = <<>>
    /\ StepFrame
    /\ Return("Ok")
    /\ tick_event' = "None" /\ tick_deq' = 0
    /\ UNCHANGED <<now, dataVars, uiVars, in_label, last_commit, post_clear,
                   dequeued, pre_clear>>

\* Some(StoryEvent::Text(t))
UpdateText ==
    /\ pc = "update" /\ update = "Update" /\ story_q # <<>>
    /\ Head(story_q).type = "Text"
    /\ StepFrame
    /\ story_q' = PopFront
    /\ dequeued' = Append(dequeued, Head(story_q))
    /\ current_response' = Head(story_q).s
    /\ \E dt \in Deltas : now' = now + dt
    /\ response_time' = now'
    /\ input_mode' = "Disabled"
    /\ update' = "Responding"
    /\ pc' = NextPc("update")
    /\ tick_event' = "Text" /\ tick_deq' = 1
    /\ post_clear' = Append(post_clear, Head(story_q).s)
    /\ UNCHANGED <<res, game_store, input, output, response_progress, label,
                   in_label, last_commit, pre_clear>>

\* Some(StoryEvent::Input(_))
UpdateInput ==
    /\ pc = "update" /\ update = "Update" /\ story_q # <<>>
    /\ Head(story_q).type = "Input"
    /\ StepFrame
    /\ story_q' = PopFront
    /\ dequeued' = Append(dequeued, Head(story_q))
    /\ input_mode' = "Input"
    /\ update' = "Wait"
    /\ pc' = NextPc("update")
    /\ tick_event' = "Input" /\ tick_deq' = 1
    /\ in_label' = Head(story_q).s
    /\ UNCHANGED <<res, now, game_store, input, output, current_response,
                   response_time, response_progress, label,
                   last_commit, post_clear, pre_clear>>

\* Some(StoryEvent::Pause)
UpdatePause ==
    /\ pc = "update" /\ update = "Update" /\ story_q # <<>>
    /\ Head(story_q).type = "Pause"
    /\ StepFrame
    /\ story_q' = PopFront
    /\ dequeued' = Append(dequeued, Head(story_q))
    /\ input_mode' = "Pause"
    /\ update' = "Wait"
    /\ pc' = NextPc("update")
    /\ tick_event' = "Pause" /\ tick_deq' = 1
    /\ UNCHANGED <<res, now, game_store, input, output, current_response,
                   response_time, response_progress, label,
                   in_label, last_commit, post_clear, pre_clear>>

\* a Clear that leaves the output log as it is
ClearOutputKeep == output

\* app_ui.output.clear()
ClearOutput == <<>>

\* Some(StoryEvent::Clear)
UpdateClear ==
    /\ pc = "update" /\ update = "Update" /\ story_q # <<>>
    /\ Head(story_q).type = "Clear"
    /\ StepFrame
    /\ story_q' = PopFront
    /\ dequeued' = Append(dequeued, Head(story_q))
    /\ output' = ClearOutput
    /\ pc' = NextPc("update")
    /\ tick_event' = "Clear" /\ tick_deq' = 1
    /\ post_clear' = <<>>
    /\ pre_clear' = output
    /\ UNCHANGED <<res, now, game_store, input, input_mode, current_response,
                   response_time, response_progress, update, label,
                   in_label, last_commit>>

\* UpdateState::HandleInput:
\* game_store.insert(mem::take(&mut label), mem::take(&mut input))
HandleInput ==
    /\ pc = "update" /\ update = "HandleInput"
    /\ StepFrame
    /\ game_store' = Insert(game_store, label, input)
    /\ label' = <<>>
    /\ input' = <<>>
    /\ update' = "Update"
    /\ pc' = NextPc("update")
    /\ tick_event' = "None" /\ tick_deq' = 0
    /\ last_commit' = [set |-> TRUE, label |-> in_label, value |-> input]
    /\ UNCHANGED <<res, now, story_q, input_mode, output, current_response,
                   response_time, response_progress, in_label, post_clear,
                   dequeued, pre_clear>>

\* a reveal that advances by one character per tick
ProgressPerTick == response_progress + 1

\* response_time.elapsed().as_millis() as usize / 10
Progress == (now' - response_time) \div CharDurationMs

\* a push of the part revealed so far in place of the whole response
PushRevealed == Append(output, SubSeq(current_response, 1, response_progress))

\* app_ui.output.push(mem::take(&mut app_ui.current_response))
PushResponse == Append(output, current_response)

\* UpdateState::Responding
Responding ==
    /\ pc = "update" /\ update = "Responding"
    /\ StepFrame
    /\ \E dt \in Deltas :
          /\ now + dt - response_time <= MaxElapsed
          /\ now' = now + dt
    /\ IF Progress >= ByteLen(current_response)
       THEN /\ output' = PushResponse
            /\ current_response' = <<>>
            /\ update' = "Update"
            /\ response_progress' = 0
       ELSE /\ response_progress' = Progress
            /\ UNCHANGED <<output, current_response, update>>
    /\ pc' = NextPc("update")
    /\ tick_event' = "None" /\ tick_deq' = 0
    /\ UNCHANGED <<res, dataVars, input, input_mode, response_time, label,
                   in_label, last_commit, post_clear, dequeued, pre_clear>>

\* UpdateState::Wait => {}
Wait ==
    /\ pc = "update" /\ update = "Wait"
    /\ StepFrame
    /\ pc' = NextPc("update")
    /\ tick_event' = "None" /\ tick_deq' = 0
    /\ UNCHANGED <<res, now, dataVars, uiVars, in_label, last_commit, post_clear,
                   dequeued, pre_clear>>


(***************************************************************************)
(* ui(): what one draw puts on the screen.                                 *)
(***************************************************************************)
\* let (content, style) = match app.input_mode { ... }
Prompt ==
    CASE input_mode = "Disabled" -> <<".", ".", ".">>
      [] input_mode = "Input" -> input
      [] input_mode = "Pause" -> <<"Press any key to continue.">>

\* &app.current_response[0..app.response_progress] is a valid slice
SliceOk == CharsOfBytes(current_response, response_progress) >= 0

\* the input line, and the output log followed by the revealed part of the
\* current response
ViewOf ==
    [drawn |-> TRUE, mode |-> input_mode, prompt |-> Prompt,
     items |-> Append(output, SubSeq(current_response, 1,
                         CharsOfBytes(current_response, response_progress)))]

\* terminal.draw(|f| ui(f, &app_ui))?
Draw ==
    /\ pc = "draw"
    /\ \/ /\ SliceOk
          /\ view' = ViewOf
          /\ pc' = NextPc("draw")
          /\ UNCHANGED <<status, res>>
       \/ /\ ~SliceOk
          /\ Exit("panic")
          /\ UNCHANGED <<view, res>>
       \/ /\ Return("Err")
          /\ UNCHANGED <<view, status>>
    /\ UNCHANGED <<doc, result, now, termVars, dataVars, uiVars, histVars>>

(***************************************************************************)
(* The poll for a key and the handling of the key.                         *)
(***************************************************************************)
TypeChars == {"B", "o", "b"}

KeyOf(c) == [code |-> c, ch |-> ""]
CharKey(c) == [code |-> "Char", ch |-> c]

\* the key events the player can produce
Keys ==
    {KeyOf("Home"), KeyOf("Enter"), KeyOf("Backspace"), KeyOf("Esc")}
        \cup {CharKey(c) : c \in TypeChars}

\* Event::Mouse, Event::Resize: an event that is not a key
MouseEvent == KeyOf("Mouse")

\* a quit key that is not the one the loop looks for
IsQuitKeyEnd(k) == k.code = "End"

\* if let KeyCode::Home = key.code
IsQuitKey(k) == k.code = "Home"

\* a pop that takes the first character
PopHead(s) == IF s = <<>> THEN <<>> ELSE Tail(s)

\* input.pop()
Pop(s) == IF s = <<>> THEN <<>> ELSE SubSeq(s, 1, Len(s) - 1)

\* a Disabled mode that buffers the characters typed
DisabledKeyInputTyped(k) == IF k.code = "Char" THEN Append(input, k.ch) ELSE input

\* InputMode::Disabled => match key.code { _ => {} }: the buffer after key k
DisabledKeyInput(k) == input

\* an Enter that leaves the mode as it is
ModeAfterEnterKept == input_mode

\* KeyCode::Enter => app_ui.input_mode = InputMode::Disabled
ModeAfterEnter == "Disabled"

\* a key at the pause prompt that is taken for a committed input
PauseKeyUpdateCommits == "HandleInput"

\* InputMode::Pause => app_ui.update = UpdateState::Update
PauseKeyUpdate == "Update"

\* match app_ui.input_mode { ... } on a key that is not the quit key
HandleKey(k) ==
    CASE input_mode = "Input" ->
            CASE k.code = "Enter" ->
                    /\ input_mode' = ModeAfterEnter
                    /\ update' = "HandleInput"
                    /\ UNCHANGED input
              [] k.code = "Char" ->
                    /\ input' = Append(input, k.ch)
                    /\ UNCHANGED <<input_mode, update>>
              [] k.code = "Backspace" ->
                    /\ input' = Pop(input)
                    /\ UNCHANGED <<input_mode, update>>
              [] OTHER -> UNCHANGED <<input, input_mode, update>>
      [] input_mode = "Disabled" ->
            /\ input' = DisabledKeyInput(k)
            /\ UNCHANGED <<input_mode, update>>
      [] input_mode = "Pause" ->
            /\ update' = PauseKeyUpdate
            /\ UNCHANGED <<input, input_mode>>

\* if event::poll(Duration::ZERO)? { if let Event::Key(key) = event::read()? {..} }
Poll ==
    /\ pc = "poll"
    /\ \/ \* poll or read returns an error
          /\ Return("Err")
          /\ UNCHANGED <<uiVars, key, tick_keys, quit>>
       \/ \* nothing is pending, or the event read is not a key
          /\ \E e \in {NoKey, MouseEvent} : key' = e
          /\ pc' = NextPc("poll")
          /\ UNCHANGED <<res, uiVars, tick_keys, quit>>
       \/ \* a key
          \E k \in Keys :
             /\ (k.code = "Char" /\ input_mode = "Input") => Len(input) < MaxInput
             /\ key' = k
             /\ tick_keys' = tick_keys + 1
             /\ IF IsQuitKey(k)
                THEN /\ Return("Ok")
                     /\ quit' = TRUE
                     /\ UNCHANGED uiVars
                ELSE /\ HandleKey(k)
                     /\ pc' = NextPc("poll")
                     /\ UNCHANGED <<res, quit, output, current_response,
                                    response_time, response_progress, label>>
    /\ UNCHANGED <<status, doc, result, now, view, termVars, dataVars,
                   in_label, last_commit, tick_event, tick_deq, post_clear,
                   dequeued, pre_clear>>

(***************************************************************************)
(* main() after run_app: the terminal is restored.                         *)
(***************************************************************************)
\* run_app owns app_ui and app_data: they are dropped as it returns, and the
\* history of the run ends with it
DropApp ==
    /\ pc = "returned"
    /\ pc' = "disable_raw"
    /\ story_q' = <<>> /\ game_store' = <<>>
    /\ input' = <<>> /\ input_mode' = "Disabled" /\ output' = <<>>
    /\ current_response' = <<>> /\ response_time' = 0 /\ response_progress' = 0
    /\ update' = "Update" /\ label' = <<>>
    /\ view' = NoView /\ now' = 0
    /\ key' = NoKey /\ in_label' = <<>> /\ last_commit' = NoCommit
    /\ tick_event' = "None" /\ tick_deq' = 0 /\ tick_keys' = 0
    /\ post_clear' = <<>> /\ dequeued' = <<>> /\ pre_clear' = <<>>
    /\ UNCHANGED <<status, doc, result, res, termVars, quit>>

\* disable_raw_mode()?
DisableRawMode ==
    /\ pc = "disable_raw"
    /\ \/ raw_mode' = FALSE /\ pc' = "leave_alt" /\ UNCHANGED status
       \/ UNCHANGED raw_mode /\ Exit("err")
    /\ UNCHANGED <<doc, result, alt_screen, res, now, view, dataVars, uiVars, histVars>>

\* execute!(terminal.backend_mut(), LeaveAlternateScreen, DisableMouseCapture)?
LeaveAlternateScreen ==
    /\ pc = "leave_alt"
    /\ \/ alt_screen' = FALSE /\ pc' = "show_cursor" /\ UNCHANGED status
       \/ UNCHANGED alt_screen /\ Exit("err")
    /\ UNCHANGED <<doc, result, raw_mode, res, now, view, dataVars, uiVars, histVars>>

\* terminal.show_cursor()?; the error of run_app is printed; Ok(())
ShowCursor ==
    /\ pc = "show_cursor"
    /\ \/ Exit("ok")
       \/ Exit("err")
    /\ UNCHANGED <<doc, result, res, now, view, termVars, dataVars, uiVars, histVars>>

Next ==
    \/ EnableRawMode \/ EnterAlternateScreen \/ NewTerminal \/ AppDefault
    \/ UpdateFinished \/ UpdateText \/ UpdateInput \/ UpdatePause \/ UpdateClear
    \/ HandleInput \/ Responding \/ Wait
    \/ Draw \/ Poll
    \/ DropApp \/ DisableRawMode \/ LeaveAlternateScreen \/ ShowCursor

Spec == Init /\ [][Next]_vars


(***************************************************************************)
(* Properties.                                                             *)
(***************************************************************************)
IsPrefix(a, b) == Len(a) <= Len(b) /\ SubSeq(b, 1, Len(a)) = a

\* the positions of main after run_app has returned
PostRun == {"returned", "disable_raw", "leave_alt", "show_cursor", "exit"}

Bob == <<"B", "o", "b">>
LabelName == <<"n", "a", "m", "e">>

\* C1: the commit step writes the typed text into the game store under the
\* label of the Input event that was dequeued; for [Text("Hi"), Input("name")]
\* and the keys B, o, b, Enter the run ends with the story exhausted, the
\* store exactly {"name": "Bob"} and the input buffer empty.
C1_CommitUnderEventLabel ==
    /\ last_commit.set =>
          /\ last_commit.label \in DOMAIN game_store
          /\ game_store[last_commit.label] = last_commit.value
    /\ (doc = DocHiName /\ pc = "returned" /\ res = "Ok" /\ ~quit
            /\ last_commit.set /\ last_commit.value = Bob) =>
          /\ DOMAIN game_store = {LabelName}
          /\ game_store[LabelName] = Bob
          /\ input = <<>>

\* the parse errors the specification names
MissingArgument ==
    [kind |-> "Err", events |-> <<>>, pos |-> 0, what |-> "MissingArgument"]
UnknownCommand(name) ==
    [kind |-> "Err", events |-> <<>>, pos |-> 0, what |-> "UnknownCommand",
     name |-> name]

\* d is +INPUT followed by nothing but spaces, tabs and newlines
IsBareInput(d) ==
    /\ Len(d) >= 6
    /\ SubSeq(d, 1, 6) = <<"+", "I", "N", "P", "U", "T">>
    /\ \A i \in 7..Len(d) : d[i] \in {" ", "\t", "\n"}

\* C2: parsing a document with an INPUT command that has no argument returns
\* the MissingArgument parse error: no panic, no event sequence.
C2_MissingArgumentIsError ==
    (pc = "parsed" /\ IsBareInput(doc)) =>
        /\ result.kind = "Err"
        /\ result.what = MissingArgument.what

\* the name of the command d starts with (<<>> when d starts with none)
LeadingCommand(d) ==
    IF d # <<>> /\ d[1] = "+"
    THEN SubSeq(d, 2, ScanWhile(d, 2, Upper) - 1)
    ELSE <<>>

KnownCommands ==
    {<<"P", "A", "U", "S", "E">>, <<"C", "L", "E", "A", "R">>,
     <<"I", "N", "P", "U", "T">>}

\* C3: parsing a document with a command whose name is not PAUSE, CLEAR or
\* INPUT returns the parse error UnknownCommand(name): no panic, no events.
C3_UnknownCommandIsError ==
    (pc = "parsed" /\ LeadingCommand(doc) # <<>>
        /\ LeadingCommand(doc) \notin KnownCommands) =>
        /\ result.kind = "Err"
        /\ result.what = UnknownCommand(LeadingCommand(doc)).what

\* C4: a document that parses to at least one event and the same document
\* followed by spaces, tabs and newlines parse to the same event sequence.
C4_TrailingWhitespaceIgnored ==
    (pc = "parsed" /\ result.kind = "Ok" /\ result.events # <<>>) =>
        \A w \in WsSuffixes(MaxSuffix) : story(doc \o w) = result

\* C5: whenever the process ends, raw mode is disabled and the alternate
\* screen is left.
C5_TerminalRestoredOnExit ==
    pc = "exit" => (~raw_mode /\ ~alt_screen)

\* C6: while a Text is the current response, the revealed count set by a tick
\* that read the clock at elapsed time t is min(L, floor(t / D)), whatever the
\* number of ticks taken until then.
C6_RevealFollowsClock ==
    update = "Responding" =>
        response_progress =
            Min(ByteLen(current_response),
                (now - response_time) \div CharDurationMs)

\* a reveal seen half way: one character after 15 ms
C6_Witness ==
    /\ update = "Responding" /\ pc = "poll"
    /\ current_response = <<"H", "i">>
    /\ now - response_time = 15
    /\ response_progress = 1
    /\ view.items = << <<"H">> >>

\* the log a render shows: the items but the last, which is the current response
ShownLog == SubSeq(view.items, 1, Len(view.items) - 1)

\* no render after a Clear shows output from before it
NoStaleOutput ==
    (pc = "poll" /\ view.drawn) => IsPrefix(ShownLog, post_clear)

\* C7 as stated: the Clear empties the log and takes no tick: no render and no
\* key poll come between the dequeue of a Clear and the next event, and no
\* later render shows the output from before the Clear.
C7_ClearTakesNoTick ==
    /\ tick_event = "Clear" => (pc \notin {"poll"} /\ output = <<>>)
    /\ NoStaleOutput

\* C7 amended: the Clear empties the log in the step that dequeues it and
\* stays in Update, it is the only event of its tick, whose render shows the
\* empty log, and no later render shows the output from before the Clear.
C7_ClearEmptiesLogInItsTick ==
    /\ (tick_event = "Clear" /\ pc \in {"draw", "poll"}) =>
          /\ output = <<>>
          /\ update = "Update"
          /\ tick_deq = 1
    /\ (tick_event = "Clear" /\ pc = "poll") => view.items = << <<>> >>
    /\ NoStaleOutput

\* the tick of a Clear has rendered the empty log in place of a line
C7_Witness ==
    /\ tick_event = "Clear" /\ pc = "poll"
    /\ pre_clear # <<>>
    /\ story_q # <<>>
    /\ view.items = << <<>> >>

\* C8: a quit key polled in any phase and mode ends the loop in that step,
\* before the mode's own key handling: nothing of the engine state changes,
\* and afterwards no event is dequeued, nothing is appended to the output
\* log and nothing is written to the game store.
C8_QuitEndsLoop ==
    [][ /\ (pc = "poll" /\ key'.code = "Home") =>
              /\ pc' = "returned"
              /\ res' = "Ok"
              /\ UNCHANGED <<dataVars, uiVars>>
        /\ pc \in PostRun =>
              /\ pc' \in PostRun
              /\ tick_deq' = 0
              /\ output' \in {output, <<>>}
              /\ game_store' \in {game_store, <<>>}
      ]_vars

\* quit while a text is typed and while a reveal is under way
C8_Witness ==
    /\ pc = "returned" /\ quit
    /\ \/ input_mode = "Input" /\ input # <<>> /\ game_store = <<>>
       \/ update = "Responding" /\ current_response # <<>> /\ output = <<>>

\* C9: a tick dequeues at most one event and handles at most one key; the
\* render shows the state the transition step left, and not the effect of
\* the key polled after it in the same tick.
C9_TickOrder ==
    /\ tick_deq <= 1
    /\ tick_keys <= 1
    /\ pc = "poll" => (view = ViewOf /\ tick_keys = 0)
    /\ (pc = "update" /\ view.drawn /\ input_mode = "Input" /\ key.code = "Char") =>
          view.prompt = Pop(input)
    /\ (pc = "update" /\ view.drawn /\ key.code = "Enter" /\ update = "HandleInput") =>
          view.mode = "Input"

\* a character typed in a tick is not on the screen that tick drew
C9_Witness ==
    /\ pc = "update" /\ view.drawn
    /\ input_mode = "Input" /\ key.code = "Char"
    /\ input = <<"B", "o">> /\ view.prompt = <<"B">>
    /\ tick_keys = 1

\* C10: the pending label is set, to the label of the Input event in flight,
\* exactly while the mode is AwaitingInput.
C10_LabelIffAwaitingInput ==
    pc \in {"update", "draw", "poll"} =>
        /\ (label # <<>>) <=> (input_mode = "Input")
        /\ input_mode = "Input" => label = in_label

\* the positions of run_app, where the queue of the parsed story exists
InRun == pc \in {"update", "draw", "poll", "returned"}

\* C11: events leave the queue from the front, in story order, each at most
\* once and for good: the events dequeued followed by the events still queued
\* are the parsed story; when the run ends because the queue is exhausted,
\* every event of the story has been dequeued exactly once.
C11_DequeuedInOrderOnce ==
    /\ InRun => dequeued \o story_q = result.events
    /\ (InRun /\ tick_deq = 1) =>
          /\ dequeued # <<>>
          /\ dequeued[Len(dequeued)].type = tick_event
    /\ (pc = "returned" /\ res = "Ok" /\ ~quit) =>
          /\ story_q = <<>>
          /\ dequeued = result.events

\* a story of four events played to its end
C11_Witness ==
    /\ pc = "returned" /\ res = "Ok" /\ ~quit
    /\ doc = DocPauseClear
    /\ Len(dequeued) = 4
    /\ dequeued = result.events


\* the contents of the Text events whose reveal completed since the last Clear
\* (the last Text dequeued is still being revealed while update is Responding)
CompletedSinceClear ==
    IF update = "Responding"
    THEN SubSeq(post_clear, 1, Len(post_clear) - 1)
    ELSE post_clear

\* C12: the output log changes only by the append of the whole current
\* response when its reveal completes and by the emptying of the log when a
\* Clear is dequeued; so the log is always, in story order, the contents of the
\* Text events whose reveal completed since the last Clear.
C12_LogIsCompletedTexts ==
    /\ [][ (pc # "returned" /\ output' # output) =>
              \/ /\ pc = "update" /\ update = "Responding" /\ update' = "Update"
                 /\ (now' - response_time) \div CharDurationMs
                        >= ByteLen(current_response)
                 /\ current_response = dequeued[Len(dequeued)].s
                 /\ output' = Append(output, current_response)
              \/ /\ pc = "update" /\ tick_event' = "Clear" /\ tick_deq' = 1
                 /\ output' = <<>>
         ]_vars
    /\ [](InRun => output = CompletedSinceClear)

\* the log holds the text revealed after the Clear and not the one before it
C12_Witness ==
    /\ InRun /\ doc = DocPauseClear
    /\ pre_clear = << <<"a">> >>
    /\ output = << <<"b">> >>


\* C13: the game store is written by the HandleInput step only, which is
\* reached only by Enter pressed in AwaitingInput mode; every other step, key
\* and the quit key leave the store as it is, and no step removes a key.
C13_StoreWrittenByCommitOnly ==
    /\ [][ pc # "returned" =>
              /\ DOMAIN game_store \subseteq DOMAIN game_store'
              /\ game_store' # game_store =>
                    /\ pc = "update" /\ update = "HandleInput"
                    /\ game_store' = Insert(game_store, label, input)
         ]_vars
    /\ [](update = "HandleInput" =>
              /\ pc = "update"
              /\ key.code = "Enter"
              /\ view.mode = "Input"
              /\ input_mode = "Disabled")

\* a second commit has overwritten the value of the first
C13_Witness ==
    /\ pc = "draw" /\ doc = DocTwoInputs
    /\ last_commit.set /\ last_commit.value = <<"o">>
    /\ story_q = <<>>
    /\ game_store # <<>>
    /\ \A l \in DOMAIN game_store : game_store[l] = <<"o">>


\* C14: for every Text content, also with characters of several bytes, the
\* revealed count is at most the length of the current response and cuts it
\* between two characters, so the slice the render takes never fails and no
\* step of the loop panics.
C14_RevealIsWholeCharPrefix ==
    /\ InRun =>
          /\ response_progress <= ByteLen(current_response)
          /\ SliceOk
    /\ status = "panic" => result.kind # "Ok"


\* the positions of d where a newline is immediately followed by "+"
NlPlusAt(d) == {k \in 1..(Len(d) - 1) : d[k] = "\n" /\ d[k + 1] = "+"}

\* the first of them
FirstNlPlus(d) == CHOOSE k \in NlPlusAt(d) : \A j \in NlPlusAt(d) : k <= j

\* C15: the events come in document order and a Text is a maximal run without
\* a newline immediately followed by "+": a document that does not start with
\* "+" parses to the Text up to its first such newline followed by the events
\* of the rest, a "+" elsewhere stays in the text;
\* "Line one\n+CLEAR\nLine two" parses to [Text, Clear, Text] and the empty
\* document to the empty sequence.
C15_TextRunsInOrder ==
    pc = "parsed" =>
        /\ doc = <<>> => result = Ok(<<>>)
        /\ result.kind = "Ok" =>
              \A i \in 1..Len(result.events) :
                  result.events[i].type = "Text" =>
                      /\ result.events[i].s # <<>>
                      /\ NlPlusAt(result.events[i].s) = {}
        /\ (doc # <<>> /\ doc[1] # "+" /\ NlPlusAt(doc) = {}) =>
              result = Ok(<<Text(doc)>>)
        /\ (doc # <<>> /\ doc[1] # "+" /\ NlPlusAt(doc) # {}
                /\ FirstNlPlus(doc) > 1) =>
              LET k == FirstNlPlus(doc)
                  rest == story(SubSeq(doc, k + 1, Len(doc)))
              IN  IF rest.kind = "Ok"
                  THEN result = Ok(<<Text(SubSeq(doc, 1, k - 1))>> \o rest.events)
                  ELSE result.kind = rest.kind
        /\ doc = DocLineClearLine =>
              result = Ok(<<Text(<<"L", "i", "n", "e", " ", "o", "n", "e">>), Clear,
                            Text(<<"L", "i", "n", "e", " ", "t", "w", "o">>)>>)

\* the example document has been parsed to its three events
C15_Witness ==
    /\ pc = "parsed" /\ doc = DocLineClearLine
    /\ Len(result.events) = 3
    /\ result.events[2] = Clear


\* the buffer b after key k, as the specification describes it
ApplyKey(b, k) ==
    CASE k.code = "Char" -> b \o <<k.ch>>
      [] k.code = "Backspace" ->
            IF Len(b) = 0 THEN b ELSE [i \in 1..(Len(b) - 1) |-> b[i]]
      [] OTHER -> b

\* C16: in AwaitingInput mode every key that is not the quit key changes the
\* input buffer as the specification says: a character is appended, Backspace
\* removes the last character (nothing of an empty buffer), any other key
\* leaves it; Enter leaves the buffer and moves to CommittingInput, the other
\* keys leave phase and mode.
C16_KeysEditBuffer ==
    [][ (pc = "poll" /\ input_mode = "Input" /\ tick_keys' = tick_keys + 1
            /\ key'.code # "Home") =>
            /\ input' = ApplyKey(input, key')
            /\ key'.code = "Enter" =>
                  (input' = input /\ update' = "HandleInput")
            /\ key'.code # "Enter" =>
                  (update' = update /\ input_mode' = "Input")
      ]_vars

\* Backspace has removed the last of two characters typed
C16_Witness ==
    /\ pc = "update" /\ input_mode = "Input"
    /\ key.code = "Backspace"
    /\ view.prompt = <<"B", "o">>
    /\ input = <<"B">>


\* C17: while the phase is Wait the mode is AwaitingInput or AwaitingAnyKey,
\* never Disabled, so a key can always end the wait; while the phase is
\* Responding or HandleInput the mode is Disabled.
C17_PhaseAndMode ==
    /\ update = "Wait" => input_mode \in {"Input", "Pause"}
    /\ update \in {"Responding", "HandleInput"} => input_mode = "Disabled"

\* Enter has ended the wait of an Input with a typed text
C17_Witness ==
    /\ pc = "update" /\ update = "HandleInput"
    /\ input_mode = "Disabled"
    /\ input = Bob
    /\ view.mode = "Input"


\* C18: a render shows the mode AwaitingAnyKey only while the engine waits for
\* the key (phase Wait): after the key that satisfied a Pause no render shows
\* that mode again until another Pause is dequeued.
C18_PausePromptOnlyWhileWaiting ==
    (pc = "poll" /\ view.drawn /\ view.mode = "Pause") => update = "Wait"


\* C20: a key that is not the quit key, polled while the mode is Disabled,
\* changes nothing of the engine state; so the input buffer is empty whenever
\* the engine enters AwaitingInput, and it holds characters only while an
\* Input awaits or its commit is pending.
C20_DisabledKeysIgnored ==
    /\ [][ (pc = "poll" /\ input_mode = "Disabled" /\ tick_keys' = tick_keys + 1
               /\ key'.code # "Home") =>
               UNCHANGED <<uiVars, dataVars>>
         ]_vars
    /\ []((pc = "draw" /\ tick_event = "Input") => input = <<>>)
    /\ [](input # <<>> => (input_mode = "Input" \/ update = "HandleInput"))

\* a character typed during a reveal has not reached the buffer
C20_Witness ==
    /\ pc = "update" /\ update = "Responding"
    /\ input_mode = "Disabled"
    /\ key.code = "Char" /\ tick_keys = 1
    /\ input = <<>>


(***************************************************************************)
(* The loop under fair scheduling: the loop keeps ticking, the             *)
(* clock read by a reveal keeps advancing, and the player eventually       *)
(* presses Enter at an input prompt and a key at a pause prompt.           *)
(***************************************************************************)
\* the reveal reads a clock that has advanced
ClockAdvances == Responding /\ now' > now

\* Enter is pressed at the input prompt
EnterPressed ==
    Poll /\ input_mode = "Input" /\ update = "Wait"
         /\ tick_keys' = tick_keys + 1 /\ key'.code = "Enter"

\* a key other than the quit key is pressed at the pause prompt
PauseKeyPressed ==
    Poll /\ input_mode = "Pause" /\ update = "Wait"
         /\ tick_keys' = tick_keys + 1 /\ key'.code # "Home"

\* one step of a tick of the loop
TickStep ==
    \/ UpdateFinished \/ UpdateText \/ UpdateInput \/ UpdatePause \/ UpdateClear
    \/ HandleInput \/ Responding \/ Wait
    \/ Draw \/ Poll

Fairness ==
    /\ WF_vars(TickStep)
    /\ SF_vars(ClockAdvances)
    /\ SF_vars(EnterPressed)
    /\ SF_vars(PauseKeyPressed)

\* the stories followed under fair scheduling: every event kind occurs in them
LiveDocs == {DocHiName, DocPauseClear, DocWide, DocFrob}

InitLive ==
    /\ pc = "enable_raw"
    /\ doc \in LiveDocs
    /\ InitState

SpecLive == InitLive /\ [][Next]_vars /\ Fairness

\* C19: once the loop runs, run_app eventually returns (the engine reaches
\* Finished), given that ticks go on, the clock advances and the keys a wait
\* needs are eventually pressed; and the phase Wait is left only by a tick
\* that handled a key.
C19_EventuallyFinished ==
    /\ (pc = "update") ~> (pc = "returned")
    /\ [][ (pc # "returned" /\ update = "Wait" /\ update' # "Wait") =>
              (pc = "poll" /\ tick_keys' = tick_keys + 1)
         ]_vars

=============================================================================
